---- MODULE Spec2Model ----
(***************************************************************************)
(* A model of service/ServiceBase: the message envelopes (message.py) and  *)
(* the dispatch engine of ServiceBase (service_base.py): the two handler   *)
(* registries, the table of awaiting requests, run(), report(), request()  *)
(* and the dispatcher _message_handler that the subscriber thread calls.   *)
(*                                                                         *)
(* Python values are modelled as follows.  A dict is a function whose      *)
(* DOMAIN is the set of keys present.  A correlation id is a record        *)
(* [t, v]: t = "str" for a string decoded from JSON, t = "UUID" for the    *)
(* uuid.UUID object that uuid.uuid4() returns; v is the 128-bit value.     *)
(* Two ids are equal in Python exactly when both t and v agree (a UUID     *)
(* object never equals a str).  JSON text is the record [json |-> d] of    *)
(* the dict it encodes; text that is not JSON is NotJson.                  *)
(***************************************************************************)
EXTENDS Integers, Sequences, FiniteSets, TLC

\* Bounds of the model.
MaxOut == 1     \* messages published on the broker
MaxUuid == 2    \* calls of uuid.uuid4()

VARIABLES
    service_name,       \* self._service_name
    service_channel,    \* self._service_channel
    redis_client,       \* self._redis_client is set
    request_handlers,   \* self._request_handlers: topic -> name -> handler
    report_handlers,    \* self._report_handlers: topic -> name -> handler
    awaiting_requests,  \* self._awaiting_requests: id -> callback
    declared,           \* the handler declarations of the subclass applied so far
    next_uuid,          \* number of uuid4() values drawn so far
    pc,                 \* position of each thread that uses the service
    cur_request,        \* the request dict a thread holds between lines 130 and 131
    listener,           \* the subscriber thread: "none", "running" (waiting for a
                        \* message), "returned" (from _message_handler), "dead"
    published,          \* every redis publish so far: <<[channel, payload]>>
    own_read,           \* how many entries of published the own subscription has passed
    last                \* what the last step did (the calls it made, what it raised)

vars == <<service_name, service_channel, redis_client, request_handlers,
          report_handlers, awaiting_requests, declared, next_uuid, pc,
          cur_request, listener, published, own_read, last>>

----------------------------------------------------------------------------
\* Python values

None == "None"                          \* None where a handler or a callback is expected
PyNone == [t |-> "NoneType", v |-> 0]   \* None as a payload, a return value or a field
EmptyDict == [k \in {} |-> k]           \* {}

\* f'service:{name}'
ChannelOf(n) == <<"service:", n>>
NoChannel == <<>>                 \* self._service_channel = None
CONTROLLER_CHANEL == ChannelOf("controller")
DefaultServiceName == "ServiceBase"

StrId(n) == [t |-> "str", v |-> n]      \* an id read from JSON
Uuid4_Fixed(n) == [t |-> "UUID", v |-> 1]   \* uuid4() if it gave the same value each time
Uuid4(n) == [t |-> "UUID", v |-> n]     \* the n-th value of uuid.uuid4()
PyIntOf(n) == [t |-> "int", v |-> n]

\* d[k] = x on a dict
Put(d, k, x) == [j \in (DOMAIN d) \cup {k} |-> IF j = k THEN x ELSE d[j]]
\* del d[k]
Del(d, k) == [j \in (DOMAIN d) \ {k} |-> d[j]]
\* d.get(k)
Get(d, k, default) == IF k \in DOMAIN d THEN d[k] ELSE default

\* json: text is the record [json |-> value]; NotJson is text json.loads rejects.
NotJson == [garbage |-> TRUE]

\* What json.dumps accepts: str, int, None, and dicts and lists of these.  It
\* raises TypeError on a uuid.UUID object and on a dict_keys view.
JsonSerializableValue(x) ==
    IF DOMAIN x = {"t", "v"} THEN x.t \in {"str", "int", "NoneType"}
    ELSE IF DOMAIN x = {"name", "channel", "requests", "reports"}
         THEN \A g \in x.requests \cup x.reports : g.names.t # "dict_keys"
         ELSE TRUE

JsonSerializable(d) ==
    /\ "id" \in DOMAIN d => JsonSerializableValue(d.id)
    /\ "data" \in DOMAIN d => JsonSerializableValue(d.data)

JsonDumps(d) == [json |-> d]
JsonLoads(text) == text.json

\* int(x)
PyInt(x) ==
    IF x.t \in {"int", "str"} THEN [raised |-> "ok", value |-> PyIntOf(x.v)]
    ELSE [raised |-> "TypeError", value |-> PyNone]

----------------------------------------------------------------------------
\* message.py

MessageKeys == <<"id", "origin", "topic", "name", "data">>

\* Message.__init__: reads the five keys in order; a missing key is a KeyError.
MessageInit(raw) ==
    IF \E i \in 1..Len(MessageKeys) : MessageKeys[i] \notin DOMAIN raw
    THEN [raised |-> "KeyError", obj |-> PyNone]
    ELSE [raised |-> "ok",
          obj |-> [id |-> raw.id, origin |-> raw.origin, topic |-> raw.topic,
                   name |-> raw.name, data |-> raw.data]]

\* Response.__init__: Message.__init__, then int(raw["status"]), raw.get("error")
ResponseInit(raw) ==
    LET m == MessageInit(raw) IN
    IF m.raised # "ok" THEN m
    ELSE IF "status" \notin DOMAIN raw THEN [raised |-> "KeyError", obj |-> PyNone]
    ELSE LET st == PyInt(raw.status) IN
         IF st.raised # "ok" THEN [raised |-> st.raised, obj |-> PyNone]
         ELSE [raised |-> "ok",
               obj |-> [id |-> raw.id, origin |-> raw.origin, topic |-> raw.topic,
                        name |-> raw.name, data |-> raw.data, status |-> st.value,
                        error |-> Get(raw, "error", PyNone)]]

----------------------------------------------------------------------------
\* The callables a service hands to the registries and to request()

\* Handlers a subclass registers: on_echo returns a payload built from the
\* message, on_heartbeat returns nothing.  ShutdownLambda is the lambda of run().
UserHandlers == {"on_echo", "on_heartbeat"}
ShutdownLambda == "lambda _: self.shutdown()"
\* The callback of the request of _register_service
Registered == "self.registered"

\* handler(message): what it returns, whether it raised, and how many times it
\* ran the shutdown hook.
CallHandler(h, message) ==
    IF h = ShutdownLambda
    THEN [raised |-> "ok", ret |-> PyNone, hook |-> 1]
    ELSE IF h = "on_echo"
    THEN IF "message" \in DOMAIN message.data
         THEN [raised |-> "ok", ret |-> [echo |-> message.data.message], hook |-> 0]
         ELSE [raised |-> "KeyError", ret |-> PyNone, hook |-> 0]
    ELSE [raised |-> "ok", ret |-> PyNone, hook |-> 0]

----------------------------------------------------------------------------
\* service_base.py: the registries

\* _find_handler as it would be if it matched on the topic alone when the name
\* is not registered
FindHandler_TopicOnly(topic, name, handlers) ==
    IF topic \notin DOMAIN handlers THEN None
    ELSE IF name \in DOMAIN handlers[topic] THEN handlers[topic][name]
    ELSE handlers[topic][CHOOSE n \in DOMAIN handlers[topic] : TRUE]

\* ServiceBase._find_handler
FindHandler(topic, name, handlers) ==
    IF topic \notin DOMAIN handlers THEN None
    ELSE Get(handlers[topic], name, None)

\* _register_handler as it would be if an existing binding were kept
\* (dict.setdefault in place of the assignment)
RegisterIn_FirstWins(dest, topic, name, handler) ==
    IF topic \in DOMAIN dest
    THEN IF name \in DOMAIN dest[topic] THEN dest
         ELSE [dest EXCEPT ![topic] = Put(dest[topic], name, handler)]
    ELSE Put(dest, topic, Put(EmptyDict, name, handler))

\* ServiceBase._register_handler on the registry dest
RegisterIn(dest, topic, name, handler) ==
    IF topic \in DOMAIN dest
    THEN [dest EXCEPT ![topic] = Put(dest[topic], name, handler)]
    ELSE Put(dest, topic, Put(EmptyDict, name, handler))

\* The 'requests' / 'reports' list of _register_service: names is the
\* dict_keys view handlers[t].keys().
TopicGroups(handlers) ==
    {[topic |-> t, names |-> [t |-> "dict_keys", v |-> DOMAIN handlers[t]]] :
        t \in DOMAIN handlers}

\* registration_data as it would be with the two lists taken from the wrong
\* registries
RegistrationData_Swapped ==
    [name |-> service_name, channel |-> service_channel,
     requests |-> TopicGroups(report_handlers),
     reports |-> TopicGroups(request_handlers)]

\* ServiceBase._register_service: registration_data
RegistrationData ==
    [name |-> service_name, channel |-> service_channel,
     requests |-> TopicGroups(request_handlers),
     reports |-> TopicGroups(report_handlers)]

\* ServiceBase.request: the dict built in lines 121-129
RequestDict(id, topic, name, payload) ==
    LET head == [id |-> id, type |-> "report", topic |-> topic, name |-> name,
                 origin |-> service_name]
    IN IF payload # PyNone THEN Put(head, "data", payload) ELSE head

\* ServiceBase.report: the dict built in lines 101-107
ReportDict(topic, name, payload) ==
    [type |-> "report", topic |-> topic, name |-> name, origin |-> service_name,
     data |-> payload]

----------------------------------------------------------------------------
\* service_base.py: the dispatcher

\* callback(response) for a callback stored by request().  _random_handler
\* subscripts the Response object, which raises TypeError; self.registered of
\* ServiceBase and the other callback return normally.
CallCallback(cb, response) ==
    IF cb = "_random_handler" THEN "TypeError" ELSE "ok"

\* _handle_request as it would be if the response took the origin of the request
HandleRequest_OriginOfRequest(request) ==
    LET handler == FindHandler(request.topic, request.name, request_handlers) IN
    IF handler = None
    THEN [raised |-> "ok", response |-> PyNone, handler |-> None, hook |-> 0]
    ELSE LET c == CallHandler(handler, request)
             head == [id |-> request.id, type |-> "response", topic |-> request.topic,
                      name |-> request.name, origin |-> request.origin]
         IN IF c.raised # "ok"
            THEN [raised |-> c.raised, response |-> PyNone, handler |-> handler,
                  hook |-> c.hook]
            ELSE [raised |-> "ok",
                  response |-> IF c.ret # PyNone THEN Put(head, "data", c.ret) ELSE head,
                  handler |-> handler, hook |-> c.hook]

\* _handle_request as it would be if it set 'data' whatever the handler returned
HandleRequest_AlwaysData(request) ==
    LET handler == FindHandler(request.topic, request.name, request_handlers) IN
    IF handler = None
    THEN [raised |-> "ok", response |-> PyNone, handler |-> None, hook |-> 0]
    ELSE LET c == CallHandler(handler, request)
             head == [id |-> request.id, type |-> "response", topic |-> request.topic,
                      name |-> request.name, origin |-> service_name]
         IN IF c.raised # "ok"
            THEN [raised |-> c.raised, response |-> PyNone, handler |-> handler,
                  hook |-> c.hook]
            ELSE [raised |-> "ok", response |-> Put(head, "data", c.ret),
                  handler |-> handler, hook |-> c.hook]

\* ServiceBase._handle_request: the response dict (PyNone when no handler is
\* found), the handler it called, what the handler raised.
HandleRequest(request) ==
    LET handler == FindHandler(request.topic, request.name, request_handlers) IN
    IF handler = None
    THEN [raised |-> "ok", response |-> PyNone, handler |-> None, hook |-> 0]
    ELSE LET c == CallHandler(handler, request)
             head == [id |-> request.id, type |-> "response", topic |-> request.topic,
                      name |-> request.name, origin |-> service_name]
         IN IF c.raised # "ok"
            THEN [raised |-> c.raised, response |-> PyNone, handler |-> handler,
                  hook |-> c.hook]
            ELSE [raised |-> "ok",
                  response |-> IF c.ret # PyNone THEN Put(head, "data", c.ret) ELSE head,
                  handler |-> handler, hook |-> c.hook]

\* ServiceBase._handle_report: the handler it called, what the handler raised.
HandleReport(report) ==
    LET handler == FindHandler(report.topic, report.name, report_handlers) IN
    IF handler = None
    THEN [raised |-> "ok", handler |-> None, hook |-> 0]
    ELSE LET c == CallHandler(handler, report)
         IN [raised |-> c.raised, handler |-> handler, hook |-> c.hook]

\* What one call of _message_handler did: the exception that escaped it ("ok"
\* when none), the handler and the callback it invoked, the number of calls of
\* the shutdown hook, the messages it published and the table it left.
Outcome(raised, handler, callback, hook, pub, awaiting) ==
    [raised |-> raised, handler |-> handler, callback |-> callback, hook |-> hook,
     pub |-> pub, awaiting |-> awaiting]

Raises(e) == Outcome(e, None, None, 0, <<>>, awaiting_requests)

\* The 'response' branch as it would be if an unmatched id emptied the table
DispatchResponse_ClearsOnMiss(message) ==
    LET r == ResponseInit(message) IN
    IF r.raised # "ok" THEN Raises(r.raised)
    ELSE LET handler == Get(awaiting_requests, r.obj.id, None) IN
         IF handler # None
         THEN LET e == CallCallback(handler, r.obj) IN
              IF e # "ok"
              THEN Outcome(e, None, handler, 0, <<>>, awaiting_requests)
              ELSE Outcome("ok", None, handler, 0, <<>>, Del(awaiting_requests, r.obj.id))
         ELSE Outcome("ok", None, None, 0, <<>>, EmptyDict)

\* ServiceBase._message_handler, lines 144-149: the 'response' branch
DispatchResponse(message) ==
    LET r == ResponseInit(message) IN
    IF r.raised # "ok" THEN Raises(r.raised)
    ELSE LET handler == Get(awaiting_requests, r.obj.id, None) IN
         IF handler # None
         THEN LET e == CallCallback(handler, r.obj) IN
              IF e # "ok"
              THEN Outcome(e, None, handler, 0, <<>>, awaiting_requests)
              ELSE Outcome("ok", None, handler, 0, <<>>, Del(awaiting_requests, r.obj.id))
         ELSE Raises("ok")

\* ServiceBase._message_handler, lines 136-140: the 'request' branch
DispatchRequest(message) ==
    LET r == MessageInit(message) IN
    IF r.raised # "ok" THEN Raises(r.raised)
    ELSE LET h == HandleRequest(r.obj) IN
         IF h.raised # "ok"
         THEN Outcome(h.raised, h.handler, None, h.hook, <<>>, awaiting_requests)
         ELSE IF h.response # PyNone
         THEN IF JsonSerializable(h.response)
              THEN Outcome("ok", h.handler, None, h.hook,
                           <<[channel |-> service_channel,
                              payload |-> JsonDumps(h.response)]>>,
                           awaiting_requests)
              ELSE Outcome("TypeError", h.handler, None, h.hook, <<>>, awaiting_requests)
         ELSE Outcome("ok", h.handler, None, h.hook, <<>>, awaiting_requests)

\* The 'report' branch as it would be if it answered a Report whose handler
\* returns a payload
DispatchReport_Replies(message) ==
    LET r == MessageInit(message) IN
    IF r.raised # "ok" THEN Raises(r.raised)
    ELSE LET handler == FindHandler(r.obj.topic, r.obj.name, report_handlers) IN
         IF handler = None THEN Raises("ok")
         ELSE LET c == CallHandler(handler, r.obj) IN
              IF c.raised = "ok" /\ c.ret # PyNone
              THEN Outcome("ok", handler, None, c.hook,
                           <<[channel |-> service_channel,
                              payload |-> JsonDumps([id |-> r.obj.id, type |-> "response",
                                                     topic |-> r.obj.topic,
                                                     name |-> r.obj.name,
                                                     origin |-> service_name,
                                                     data |-> c.ret])]>>,
                           awaiting_requests)
              ELSE Outcome(c.raised, handler, None, c.hook, <<>>, awaiting_requests)

\* ServiceBase._message_handler, lines 141-143: the 'report' branch
DispatchReport(message) ==
    LET r == MessageInit(message) IN
    IF r.raised # "ok" THEN Raises(r.raised)
    ELSE LET h == HandleReport(r.obj) IN
         Outcome(h.raised, h.handler, None, h.hook, <<>>, awaiting_requests)

\* ServiceBase._message_handler
MessageHandler(redis_message) ==
    IF redis_message.type # "message" THEN Raises("ok")
    ELSE IF redis_message.data = NotJson THEN Raises("JSONDecodeError")
    ELSE LET message == JsonLoads(redis_message.data) IN
         IF "type" \notin DOMAIN message THEN Raises("KeyError")
         ELSE IF message.type = "request" THEN DispatchRequest(message)
         ELSE IF message.type = "report" THEN DispatchReport(message)
         ELSE IF message.type = "response" THEN DispatchResponse(message)
         ELSE Raises("ok")

----------------------------------------------------------------------------
\* Inputs

Topics == {"sample", "service"}
Names == {"echo", "shutdown"}
Configs == {[name |-> "sample"]}
Threads == {"main", "app"}

\* The handlers a subclass declares: (topic, name, is_request, handler).  Two
\* of them name the same request; one names the same (topic, name) as a report,
\* with a handler that returns a payload.
Declarations ==
    {<<"sample", "echo", TRUE, "on_echo">>,
     <<"sample", "echo", TRUE, "on_heartbeat">>,
     <<"sample", "echo", FALSE, "on_echo">>}

\* Ids on the wire: the string forms of the ids uuid4() can have drawn.
WireIds == {StrId(n) : n \in 1..MaxUuid}

DataHi == [message |-> "hi"]

Envelope(ty, i, tp, nm) ==
    [id |-> i, type |-> ty, topic |-> tp, name |-> nm, origin |-> "controller",
     data |-> DataHi]

\* Envelopes with every field the classes of message.py read.
WellFormed ==
    {Envelope("request", i, "sample", "echo") : i \in WireIds}
    \cup {Envelope(ty, StrId(1), tp, nm) :
            ty \in {"request", "report"}, tp \in Topics, nm \in Names}
    \cup {Put(Envelope("response", i, "sample", "echo"), "status", PyIntOf(0)) :
            i \in WireIds}

\* One envelope of each kind, and what is left of it when one field is missing.
Samples == {m \in WellFormed : m.id = StrId(1) /\ m.topic = "sample" /\ m.name = "echo"}
OneFieldMissing ==
    {Del(m, k) : m \in Samples, k \in {"id", "topic", "name", "origin", "data", "status"}}
    \ Samples
NoKind == {Del(m, "type") : m \in {s \in Samples : s.type = "request"}}
UnknownKind == {[m EXCEPT !.type = "bogus"] : m \in {s \in Samples : s.type = "request"}}

\* What the subscriber thread hands to _message_handler
RedisMessages ==
    {[type |-> "message", data |-> JsonDumps(m)] :
        m \in WellFormed \cup OneFieldMissing \cup NoKind \cup UnknownKind}
    \cup {[type |-> "message", data |-> NotJson],
          [type |-> "subscribe", data |-> PyIntOf(1)]}

\* The request() calls of the application: (callback, payload)
AppCalls == {<<"_random_handler", PyNone>>, <<"other_handler", [value |-> "x"]>>}
\* The payloads of its report() calls
AppPayloads == {[value |-> "x"]}

----------------------------------------------------------------------------
\* The state machine

\* The record of a step that is no dispatch
Step(op, raised) ==
    [op |-> op, rm |-> [type |-> "none", data |-> PyNone], raised |-> raised,
     handler |-> None, callback |-> None, hook |-> 0, pub |-> <<>>,
     before |-> awaiting_requests]

\* ServiceBase.__init__
Init ==
    /\ service_name = DefaultServiceName
    /\ service_channel = NoChannel
    /\ redis_client = FALSE
    /\ request_handlers = EmptyDict
    /\ report_handlers = EmptyDict
    /\ awaiting_requests = EmptyDict
    /\ declared = {}
    /\ next_uuid = 0
    /\ pc = [th \in Threads |-> IF th = "main" THEN "init" ELSE "idle"]
    /\ cur_request = [th \in Threads |-> PyNone]
    /\ listener = "none"
    /\ published = <<>>
    /\ own_read = 0
    /\ last = [op |-> "init", rm |-> [type |-> "none", data |-> PyNone],
               raised |-> "ok", handler |-> None, callback |-> None, hook |-> 0,
               pub |-> <<>>, before |-> EmptyDict]

\* ServiceBase.configure, called while the service is built
Configure(config) ==
    /\ pc["main"] = "init"
    /\ service_name' = Get(config, "name", service_name)
    /\ service_channel' = ChannelOf(service_name')
    /\ last' = Step("configure", "ok")
    /\ UNCHANGED <<redis_client, request_handlers, report_handlers, awaiting_requests,
                   declared, next_uuid, pc, cur_request, listener, published, own_read>>

\* ServiceBase._register_handler: both registries after the call
RegisterHandlerOp(topic, name, is_request, handler) ==
    IF is_request
    THEN [request |-> RegisterIn(request_handlers, topic, name, handler),
          report |-> report_handlers]
    ELSE [request |-> request_handlers,
          report |-> RegisterIn(report_handlers, topic, name, handler)]

\* A subclass registers a handler while the service is built
RegisterHandler(topic, name, is_request, handler) ==
    /\ pc["main"] = "init"
    /\ <<topic, name, is_request, handler>> \in Declarations \ declared
    /\ LET r == RegisterHandlerOp(topic, name, is_request, handler) IN
        /\ request_handlers' = r.request
        /\ report_handlers' = r.report
    /\ declared' = declared \cup {<<topic, name, is_request, handler>>}
    /\ last' = Step("register_handler", "ok")
    /\ UNCHANGED <<service_name, service_channel, redis_client, awaiting_requests,
                   next_uuid, pc, cur_request, listener, published, own_read>>

\* ServiceBase.run, line 84: the registries once the shutdown handler is installed
InstallShutdown == RegisterHandlerOp("service", "shutdown", FALSE, ShutdownLambda)

\* ServiceBase.run, lines 78-86.  subscribe(**{None: handler}) raises TypeError
\* when configure() was never called.
Run ==
    /\ pc["main"] = "init"
    /\ redis_client' = TRUE
    /\ IF service_channel = NoChannel
       THEN /\ pc' = [pc EXCEPT !["main"] = "failed"]
            /\ last' = Step("run", "TypeError")
            /\ UNCHANGED <<request_handlers, report_handlers, listener>>
       ELSE /\ request_handlers' = InstallShutdown.request
            /\ report_handlers' = InstallShutdown.report
            /\ listener' = "running"
            /\ pc' = [pc EXCEPT !["main"] = "started"]
            /\ last' = Step("run", "ok")
    /\ UNCHANGED <<service_name, service_channel, awaiting_requests, declared,
                   next_uuid, cur_request, published, own_read>>

\* ServiceBase.request, lines 121-130: draw the id, build the dict, store the
\* handler under the id.
RequestStore(th, topic, name, handler, payload) ==
    LET id == Uuid4(next_uuid + 1) IN
    /\ next_uuid' = next_uuid + 1
    /\ awaiting_requests' = Put(awaiting_requests, id, handler)
    /\ cur_request' = [cur_request EXCEPT ![th] = RequestDict(id, topic, name, payload)]
    /\ pc' = [pc EXCEPT ![th] = "publishing"]
    /\ last' = Step("request", "ok")
    /\ UNCHANGED <<service_name, service_channel, redis_client, request_handlers,
                   report_handlers, declared, listener, published, own_read>>

\* ServiceBase.run, line 88: _register_service up to line 130 of request()
RegisterService ==
    /\ pc["main"] = "started"
    /\ RequestStore("main", "system", "register", Registered, RegistrationData)

\* A request() call of the application, up to line 130.  One id is kept for
\* the request of run() while run() has not drawn it.
AppRequest(name, handler, payload) ==
    /\ pc["app"] = "idle"
    /\ redis_client
    /\ next_uuid + (IF pc["main"] \in {"init", "started"} THEN 1 ELSE 0) < MaxUuid
    /\ RequestStore("app", "system", name, handler, payload)

\* ServiceBase.request, line 131: json.dumps(request), then publish
RequestPublish(th) ==
    /\ pc[th] = "publishing"
    /\ cur_request' = [cur_request EXCEPT ![th] = PyNone]
    /\ IF JsonSerializable(cur_request[th])
       THEN /\ Len(published) < MaxOut
            /\ published' = Append(published, [channel |-> CONTROLLER_CHANEL,
                                               payload |-> JsonDumps(cur_request[th])])
            /\ pc' = [pc EXCEPT ![th] = IF th = "main" THEN "done" ELSE "idle"]
            /\ last' = Step("publish_request", "ok")
       ELSE /\ published' = published
            /\ pc' = [pc EXCEPT ![th] = IF th = "main" THEN "failed" ELSE "idle"]
            /\ last' = Step("publish_request", "TypeError")
    /\ UNCHANGED <<service_name, service_channel, redis_client, request_handlers,
                   report_handlers, awaiting_requests, declared, next_uuid, listener,
                   own_read>>

\* ServiceBase.report, called by the application
AppReport(name, payload) ==
    /\ pc["app"] = "idle"
    /\ redis_client
    /\ Len(published) < MaxOut
    /\ JsonSerializable(ReportDict("system", name, payload))
    /\ published' = Append(published,
                           [channel |-> CONTROLLER_CHANEL,
                            payload |-> JsonDumps(ReportDict("system", name, payload))])
    /\ last' = Step("report", "ok")
    /\ UNCHANGED <<service_name, service_channel, redis_client, request_handlers,
                   report_handlers, awaiting_requests, declared, next_uuid, pc,
                   cur_request, listener, own_read>>

\* The delivery step as it would be if the subscriber thread were stopped once
\* the shutdown hook has run
Dispatch_StopsAfterShutdown(redis_message) ==
    LET out == MessageHandler(redis_message) IN
    /\ listener = "running"
    /\ Len(published) + Len(out.pub) <= MaxOut
    /\ published' = published \o out.pub
    /\ awaiting_requests' = out.awaiting
    /\ listener' = IF out.raised = "ok" /\ out.hook = 0 THEN "returned" ELSE "dead"
    /\ last' = [op |-> "dispatch", rm |-> redis_message, raised |-> out.raised,
                handler |-> out.handler, callback |-> out.callback, hook |-> out.hook,
                pub |-> out.pub, before |-> awaiting_requests]
    /\ UNCHANGED <<service_name, service_channel, redis_client, request_handlers,
                   report_handlers, declared, next_uuid, pc, cur_request>>

\* The subscriber thread calls _message_handler(redis_message).  An exception
\* that escapes the call ends the thread: run_in_thread is given no exception
\* handler (line 86).
Dispatch(redis_message) ==
    LET out == MessageHandler(redis_message) IN
    /\ listener = "running"
    /\ Len(published) + Len(out.pub) <= MaxOut
    /\ published' = published \o out.pub
    /\ awaiting_requests' = out.awaiting
    /\ listener' = IF out.raised = "ok" THEN "returned" ELSE "dead"
    /\ last' = [op |-> "dispatch", rm |-> redis_message, raised |-> out.raised,
                handler |-> out.handler, callback |-> out.callback, hook |-> out.hook,
                pub |-> out.pub, before |-> awaiting_requests]
    /\ UNCHANGED <<service_name, service_channel, redis_client, request_handlers,
                   report_handlers, declared, next_uuid, pc, cur_request>>

\* A delivery of a message that another process published on the service's channel
Deliver(redis_message) ==
    /\ Dispatch(redis_message)
    /\ own_read' = own_read

\* The positions of published, after own_read, of messages on the own channel
OwnUnread == {i \in (own_read + 1)..Len(published) :
                published[i].channel = service_channel}

\* A delivery of the next message the service itself published on its own
\* channel, to which it is subscribed (lines 80-82, 140)
DeliverOwn ==
    /\ OwnUnread # {}
    /\ LET i == CHOOSE j \in OwnUnread : \A k \in OwnUnread : j <= k IN
        /\ Dispatch([type |-> "message", data |-> published[i].payload])
        /\ own_read' = i

\* The subscriber thread goes back to wait for the next message (line 86)
ListenerLoop ==
    /\ listener = "returned"
    /\ listener' = "running"
    /\ last' = Step("loop", "ok")
    /\ UNCHANGED <<service_name, service_channel, redis_client, request_handlers,
                   report_handlers, awaiting_requests, declared, next_uuid, pc,
                   cur_request, published, own_read>>

Next ==
    \/ \E config \in Configs : Configure(config)
    \/ \E topic \in Topics, name \in Names, is_request \in BOOLEAN, h \in UserHandlers :
          RegisterHandler(topic, name, is_request, h)
    \/ Run
    \/ RegisterService
    \/ \E call \in AppCalls : AppRequest("get_random_number", call[1], call[2])
    \/ \E th \in Threads : RequestPublish(th)
    \/ \E payload \in AppPayloads : AppReport("status", payload)
    \/ \E rm \in RedisMessages : Deliver(rm)
    \/ DeliverOwn
    \/ ListenerLoop

Spec == Init /\ [][Next]_vars

----------------------------------------------------------------------------
\* Properties.  They read `last`, the record of the step that led to the state.

\* The last step was a call of _message_handler with JSON text
HasEnvelope ==
    /\ last.op = "dispatch"
    /\ last.rm.type = "message"
    /\ last.rm.data # NotJson
\* ... and this is the dict the text encodes
LastEnvelope == JsonLoads(last.rm.data)

KindIs(kind) ==
    /\ HasEnvelope
    /\ "type" \in DOMAIN LastEnvelope
    /\ LastEnvelope.type = kind

\* The last step dispatched a Request (a Report, a Response) with every field
\* its class reads
RequestDispatched ==
    KindIs("request") /\ {"id", "origin", "topic", "name", "data"} \subseteq DOMAIN LastEnvelope
ReportDispatched ==
    KindIs("report") /\ {"id", "origin", "topic", "name", "data"} \subseteq DOMAIN LastEnvelope
ResponseDispatched ==
    KindIs("response")
    /\ {"id", "origin", "topic", "name", "data", "status"} \subseteq DOMAIN LastEnvelope

\* (topic, name) is bound in a registry
Bound(registry, topic, name) ==
    topic \in DOMAIN registry /\ name \in DOMAIN registry[topic]

\* The last step dispatched a Request whose handler returned normally
RequestHandled ==
    /\ RequestDispatched
    /\ Bound(request_handlers, LastEnvelope.topic, LastEnvelope.name)
    /\ CallHandler(request_handlers[LastEnvelope.topic][LastEnvelope.name],
                   LastEnvelope).raised = "ok"
\* ... and this is what it returned
LastPayload ==
    CallHandler(request_handlers[LastEnvelope.topic][LastEnvelope.name], LastEnvelope).ret

\* The last step published exactly one message, on the service's own channel:
\* a response with the id, topic and name of the request and the service's name
OneResponsePublished ==
    /\ last.raised = "ok"
    /\ Len(last.pub) = 1
    /\ published # <<>>
    /\ published[Len(published)] = last.pub[1]
    /\ LET r == JsonLoads(last.pub[1].payload) IN
        /\ r.type = "response"
        /\ r.id = LastEnvelope.id
        /\ r.topic = LastEnvelope.topic
        /\ r.name = LastEnvelope.name
        /\ r.origin = service_name

\* C1: the dispatch of a Request whose registered handler returns a payload P
\* publishes exactly one Response, with the Request's id, topic and name, the
\* service's configured name as origin, and P as data.
C1_PayloadIsAnswered ==
    (RequestHandled /\ LastPayload # PyNone)
    => /\ OneResponsePublished
       /\ "data" \in DOMAIN JsonLoads(last.pub[1].payload)
       /\ JsonLoads(last.pub[1].payload).data = LastPayload

C1_Witness ==
    /\ RequestHandled
    /\ LastPayload = [echo |-> "hi"]
    /\ Len(last.pub) = 1
    /\ service_name = "sample"

C3_ShutdownRequestRunsHook ==
    (RequestDispatched /\ LastEnvelope.topic = "service" /\ LastEnvelope.name = "shutdown")
    => (last.hook = 1 /\ last.pub = <<>>)

\* The entry request() stored for the id that the dispatched Response carries:
\* the Response has the string form of the UUID that request() drew
KeyOfResponse == Uuid4(LastEnvelope.id.v)

\* C4: when a Response that carries the id of an earlier request(topic, name, C)
\* is dispatched, C is invoked with it and the pending entry of that id is
\* removed; a Response whose request has no pending entry (a second delivery)
\* invokes no callback.
C4_ResponseResolvesItsRequest ==
    ResponseDispatched
    => IF KeyOfResponse \in DOMAIN last.before
       THEN /\ last.callback = last.before[KeyOfResponse]
            /\ KeyOfResponse \notin DOMAIN awaiting_requests
       ELSE last.callback = None

\* A published message is the Request to (topic 'system', name 'register')
IsRegisterRequest(p) ==
    /\ p.channel = CONTROLLER_CHANEL
    /\ "id" \in DOMAIN JsonLoads(p.payload)
    /\ JsonLoads(p.payload).topic = "system"
    /\ JsonLoads(p.payload).name = "register"

\* run() started the listener and has ended
RunEnded == pc["main"] \in {"done", "failed"} /\ listener # "none"

\* C5: whatever the listener thread does while run() goes on, no message that
\* the listener publishes comes before the Request to (topic 'system', name
\* 'register'), and once run() has ended exactly one such Request has been
\* published.
C5_RegisterPublishedFirst ==
    /\ \A i \in 1..Len(published) :
          published[i].channel = service_channel
          => \E j \in 1..(i - 1) : IsRegisterRequest(published[j])
    /\ RunEnded
       => Cardinality({i \in 1..Len(published) : IsRegisterRequest(published[i])}) = 1

\* C6: each request() adds one pending entry of its own, and with several
\* requests pending the dispatch of the Response to one of them invokes the
\* callback stored for that request and removes that entry and no other.
C6_ResponsesResolveTheirOwnEntries ==
    /\ last.op = "request"
       => Cardinality(DOMAIN awaiting_requests) = Cardinality(DOMAIN last.before) + 1
    /\ (/\ ResponseDispatched
        /\ Cardinality(DOMAIN last.before) >= 2
        /\ KeyOfResponse \in DOMAIN last.before)
       => /\ last.callback = last.before[KeyOfResponse]
          /\ awaiting_requests = Del(last.before, KeyOfResponse)

\* C7: the dispatch of a Request whose (topic, name) has no registered request
\* handler publishes nothing and invokes no handler.
C7_UnregisteredRequestIsSilent ==
    (RequestDispatched
     /\ ~Bound(request_handlers, LastEnvelope.topic, LastEnvelope.name))
    => /\ last.pub = <<>>
       /\ last.handler = None
       /\ last.callback = None
       /\ last.hook = 0
       /\ last.raised = "ok"

\* A request was dispatched for a name that is not registered under a topic
\* that has request handlers, while a report handler has that (topic, name)
C7_Witness ==
    /\ RequestDispatched
    /\ LastEnvelope.topic \in DOMAIN request_handlers
    /\ ~Bound(request_handlers, LastEnvelope.topic, LastEnvelope.name)
    /\ last.raised = "ok"

\* An envelope that lacks a required header field or has an unknown kind
Malformed(m) ==
    \/ "type" \notin DOMAIN m
    \/ m.type \notin {"request", "report", "response"}
    \/ ~({"origin", "topic", "name"} \subseteq DOMAIN m)
    \/ (m.type \in {"request", "response"} /\ "id" \notin DOMAIN m)

\* C8: the dispatch of a malformed or incomplete envelope drops it: nothing
\* is published, no handler or callback is invoked, no error escapes
\* _message_handler and the listener lives on.
C8_MalformedIsDropped ==
    (HasEnvelope /\ Malformed(LastEnvelope))
    => /\ last.raised = "ok"
       /\ last.pub = <<>>
       /\ last.handler = None
       /\ last.callback = None
       /\ listener # "dead"

\* The decoding of the dispatched envelope failed: an error escaped before any
\* handler or callback was invoked
DecodeFailed == last.raised # "ok" /\ last.handler = None /\ last.callback = None

\* C9: decoding fails exactly when a required header field is missing or the
\* kind is unknown; a Report without id and an envelope without data decode,
\* and a Report without id reaches its registered report handler.
C9_DecodeFailsExactlyOnMissingHeader ==
    HasEnvelope
    => /\ DecodeFailed <=> Malformed(LastEnvelope)
       /\ (/\ KindIs("report")
           /\ ~Malformed(LastEnvelope)
           /\ "id" \notin DOMAIN LastEnvelope
           /\ "data" \in DOMAIN LastEnvelope
           /\ Bound(report_handlers, LastEnvelope.topic, LastEnvelope.name))
          => last.handler = report_handlers[LastEnvelope.topic][LastEnvelope.name]

\* The text is JSON of a Response with every field Response.__init__ reads
IsResponse(rm) ==
    /\ rm.type = "message"
    /\ rm.data # NotJson
    /\ "type" \in DOMAIN JsonLoads(rm.data)
    /\ JsonLoads(rm.data).type = "response"
    /\ {"id", "origin", "topic", "name", "data", "status"} \subseteq DOMAIN JsonLoads(rm.data)

\* C10: the dispatch of a Response whose id is no key of the pending table
\* leaves the table, both registries and the published messages as they were,
\* and invokes no callback and no handler.
C10_UnmatchedResponseChangesNothing ==
    [][(/\ last'.op = "dispatch"
        /\ IsResponse(last'.rm)
        /\ JsonLoads(last'.rm.data).id \notin DOMAIN awaiting_requests)
       => /\ UNCHANGED <<awaiting_requests, request_handlers, report_handlers, published,
                         service_name, service_channel>>
          /\ last'.callback = None
          /\ last'.handler = None
          /\ last'.pub = <<>>
          /\ last'.raised = "ok"]_vars

\* A Response was dispatched while requests were pending and its id was no key
C10_Witness ==
    /\ ResponseDispatched
    /\ last.before # EmptyDict
    /\ LastEnvelope.id \notin DOMAIN last.before
    /\ last.raised = "ok"

\* C11: the dispatch of a Report publishes nothing, whether or not a report
\* handler is registered for its (topic, name) and whatever the handler returns.
C11_ReportIsNeverAnswered ==
    KindIs("report") => last.pub = <<>>

\* A Report was dispatched to a handler that returns a payload
C11_Witness ==
    /\ ReportDispatched
    /\ last.handler = "on_echo"
    /\ CallHandler(last.handler, LastEnvelope).ret = [echo |-> "hi"]
    /\ last.raised = "ok"
    /\ last.pub = <<>>

\* The last step dispatched a Response that carries the id of the pending
\* Request to (topic 'system', name 'register')
RegisterResponseDispatched ==
    /\ ResponseDispatched
    /\ KeyOfResponse \in DOMAIN last.before
    /\ last.before[KeyOfResponse] = Registered

\* C12: the 'registered' hook is invoked only by the dispatch of a Response that
\* carries the id of the system/register Request, and it is invoked whenever
\* such a Response is dispatched.
C12_RegisteredFollowsRegisterResponse ==
    /\ last.callback = Registered => RegisterResponseDispatched
    /\ RegisterResponseDispatched => last.callback = Registered

\* The registry of a kind: requests (TRUE) or reports (FALSE)
RegistryOf(is_request, requests, reports) == IF is_request THEN requests ELSE reports

\* The step registers the declaration d: afterwards the lookup of its (topic,
\* name) in the registry of its kind finds its handler, and every other lookup,
\* in either registry, finds what it found before.
RegistersOnly(d) ==
    /\ FindHandler(d[1], d[2], RegistryOf(d[3], request_handlers', report_handlers')) = d[4]
    /\ \A topic \in Topics \cup {"service", "system"}, name \in Names \cup {"shutdown"},
          is_request \in BOOLEAN :
          <<topic, name, is_request>> # <<d[1], d[2], d[3]>>
          => FindHandler(topic, name, RegistryOf(is_request, request_handlers', report_handlers'))
             = FindHandler(topic, name, RegistryOf(is_request, request_handlers, report_handlers))

\* C13: a registration for a (topic, name, kind), whether or not that key is
\* already bound, leaves its own handler as the one a lookup of the key finds and
\* leaves every other binding as it was, the same (topic, name) of the other
\* kind included.
C13_LaterRegistrationWins ==
    [][\A d \in declared' \ declared : RegistersOnly(d)]_vars

\* The same request (topic, name) was registered twice, the second time just
\* now, and the report namespace is still empty
C13_Witness ==
    /\ last.op = "register_handler"
    /\ declared = {<<"sample", "echo", TRUE, "on_echo">>,
                   <<"sample", "echo", TRUE, "on_heartbeat">>}
    /\ FindHandler("sample", "echo", request_handlers) = "on_heartbeat"
    /\ FindHandler("sample", "echo", report_handlers) = None

\* The class _message_handler builds from a decoded dict of each kind: Response
\* for 'response', Request and Report (both Message.__init__) otherwise
Decode(m) == IF m.type = "response" THEN ResponseInit(m) ELSE MessageInit(m)

\* Encoding the dict d and decoding the text gives an object with every field of d
RoundTrips(d) ==
    /\ JsonSerializable(d)
    /\ LET m == JsonLoads(JsonDumps(d)) IN
        /\ Decode(m).raised = "ok"
        /\ \A k \in DOMAIN m \ {"type"} :
              k \in DOMAIN Decode(m).obj /\ Decode(m).obj[k] = m[k]

\* C14: every envelope the service emits, the dict of report(), of request() and
\* of _handle_request(), is encoded to JSON and decoded by the class of its kind
\* into an object that has every field of the envelope.
C14_EmittedEnvelopesRoundTrip ==
    /\ \A th \in Threads : cur_request[th] # PyNone => RoundTrips(cur_request[th])
    /\ \A i \in 1..Len(published) : RoundTrips(JsonLoads(published[i].payload))

\* C15: in every step each entry of the pending table stays, under its key and
\* with its callback, unless the step is the dispatch of a Response whose id is
\* the key of the entry; so request() never replaces an entry, and an entry
\* whose Response does not arrive stays.
C15_EntriesLeaveOnlyByTheirResponse ==
    [][\A k \in DOMAIN awaiting_requests :
          \/ /\ k \in DOMAIN awaiting_requests'
             /\ awaiting_requests'[k] = awaiting_requests[k]
          \/ /\ last'.op = "dispatch"
             /\ IsResponse(last'.rm)
             /\ JsonLoads(last'.rm.data).id = k
             /\ k \notin DOMAIN awaiting_requests']_vars

\* A second request() was stored while the first was pending, and the first
\* entry is still there with its callback
C15_Witness ==
    /\ last.op = "request"
    /\ last.before # EmptyDict
    /\ Cardinality(DOMAIN awaiting_requests) = Cardinality(DOMAIN last.before) + 1
    /\ \A k \in DOMAIN last.before :
          k \in DOMAIN awaiting_requests /\ awaiting_requests[k] = last.before[k]

\* The topics and names a handler can be registered under
AllTopics == Topics \cup {"service", "system"}
AllNames == Names \cup {"shutdown", "register"}

\* groups has one entry for each topic with a binding in the registry, and no
\* other, and the entry of a topic holds exactly the names bound under it
ListsRegistry(groups, registry) ==
    /\ {g.topic : g \in groups}
       = {topic \in AllTopics : \E name \in AllNames : Bound(registry, topic, name)}
    /\ \A g, h \in groups : g.topic = h.topic => g = h
    /\ \A g \in groups :
          g.names.v = {name \in AllNames : Bound(registry, g.topic, name)}

\* C16: the payload of the Request to (topic 'system', name 'register') that
\* run() builds holds the service's name, its personal channel, and for the
\* request handlers and for the report handlers one entry for each topic that has
\* a handler of that kind, with exactly the names registered under the topic.
C16_RegistrationListsBothRegistries ==
    pc["main"] = "publishing"
    => /\ cur_request["main"].topic = "system"
       /\ cur_request["main"].name = "register"
       /\ LET data == cur_request["main"].data IN
           /\ data.name = service_name
           /\ data.channel = service_channel
           /\ ListsRegistry(data.requests, request_handlers)
           /\ ListsRegistry(data.reports, report_handlers)

\* run() built the register Request of a service with one request handler and
\* two report handlers, the built-in one among them
C16_Witness ==
    /\ pc["main"] = "publishing"
    /\ declared = Declarations
    /\ {g.topic : g \in cur_request["main"].data.requests} = {"sample"}
    /\ {g.topic : g \in cur_request["main"].data.reports} = {"sample", "service"}
    /\ cur_request["main"].data.channel = ChannelOf("sample")

OwnDispatched ==
    /\ last.op = "dispatch"
    /\ own_read > 0
    /\ published[own_read].channel = service_channel
    /\ last.rm = [type |-> "message", data |-> published[own_read].payload]

\* C18: the dispatch of the Response that the service published on its own
\* channel raises nothing, invokes no callback and no handler, leaves the pending
\* table as it was and publishes nothing, and the subscriber thread goes on.
C18_OwnResponseIsHarmless ==
    OwnDispatched
    => /\ last.raised = "ok"
       /\ last.callback = None
       /\ last.handler = None
       /\ last.pub = <<>>
       /\ awaiting_requests = last.before
       /\ listener # "dead"

\* The ids of the outbound requests published so far
PublishedRequestIds ==
    {JsonLoads(published[i].payload).id :
        i \in {j \in 1..Len(published) :
                 /\ published[j].channel = CONTROLLER_CHANEL
                 /\ "id" \in DOMAIN JsonLoads(published[j].payload)}}

\* The ids of the request() calls that have stored their entry and have not yet
\* reached the publish of line 131
InFlightRequestIds ==
    {cur_request[th].id : th \in {t \in Threads : pc[t] = "publishing"}}

\* C19: the id of every published outbound request was stored as a key of the
\* pending table before, and every pending entry belongs to a request that was
\* published, or to a request() call that is between the store and the publish.
C19_PendingMatchesPublished ==
    /\ PublishedRequestIds \subseteq {Uuid4(n) : n \in 1..next_uuid}
    /\ DOMAIN awaiting_requests \subseteq PublishedRequestIds \cup InFlightRequestIds

\* C20: the dispatch of a Response that carries the id of a pending request
\* invokes the stored callback; when the callback returns, the entry is removed,
\* and when it raises, the exception leaves the dispatcher and the pending table
\* is as it was before the dispatch.
C20_EntryOutlivesFailingCallback ==
    (ResponseDispatched /\ KeyOfResponse \in DOMAIN last.before)
    => LET cb == last.before[KeyOfResponse]
           outcome == CallCallback(cb, ResponseInit(LastEnvelope).obj)
       IN /\ last.callback = cb
          /\ last.raised = outcome
          /\ awaiting_requests = IF outcome = "ok" THEN Del(last.before, KeyOfResponse)
                                 ELSE last.before

====
